---------------------------- MODULE Spec2Model ----------------------------
(***************************************************************************)
(* Prob-Horizon: the two computation engines.                              *)
(*   - DistributionExplorer (src/src/utils/distribution_explorer.py)       *)
(*   - CLTSimulator         (src/src/utils/clt_simulator.py)               *)
(*                                                                         *)
(* Numbers.  Parameter values are kept in hundredths (0.01 -> 1, 0.1 ->    *)
(* 10, 1 -> 100), so every literal of the Explorer catalog is an integer.  *)
(* A Python value is a record [k, v]: k = "num" (a real number, v its      *)
(* value in hundredths), "nan", "inf", "ninf" (float specials) or "none"   *)
(* (a non-numeric object such as None, which Python refuses to order).     *)
(*                                                                         *)
(* Names.  The catalog keys are Chinese strings in the source; the model   *)
(* uses these ASCII keys:                                                  *)
(*   Normal = 正态分布, Uniform = 均匀分布, Exponential = 指数分布,           *)
(*   Gamma = 伽马分布, Beta = 贝塔分布, ChiSquare = 卡方分布, StudentT = t分布, *)
(*   F = F分布, Binomial = 二项分布, Poisson = 泊松分布,                      *)
(*   Geometric = 几何分布, NegBinomial = 负二项分布;                          *)
(*   Nonexistent = 不存在的分布 (the unregistered name of the tests).        *)
(***************************************************************************)
EXTENDS Integers, Sequences, FiniteSets, TLC

VARIABLES
    distributions,      \* DistributionExplorer.distributions (the catalog)
    clt_distributions,  \* CLTSimulator.distributions (the catalog)
    op,                 \* the method called, "none" before the call
    dist_name,          \* argument dist_name of the call
    params,             \* argument params of the call (Explorer), as passed
    caller_params,      \* the caller's mapping behind params, as the call leaves it
    x_range,            \* argument x_range of calculate_pdf_pmf
    sample_size,        \* argument sample_size of simulate_sampling
    num_samples,        \* argument num_samples of simulate_sampling
    size,               \* argument size of generate_population_sample
    sample_means,       \* argument sample_means of calculate_normality_test
    env,                \* what the library calls of this call do (which raise, ...)
    ret,                \* outcome of the call: a return value or an exception
    constructed,        \* generators built during the call: <<[func, kwargs]>>
    drawn,              \* batches drawn by rvs during the call: <<<<v1..vn>>, ..>>
    session_state,      \* st.session_state: the attributes set so far, with their values
    page,               \* the value of the navigation selectbox of main()
    shown,              \* the page the last script run rendered
    rerun_pending,      \* st.rerun() was called: the script is about to run again
    event,              \* the interaction that started the last script run
    invoked,            \* the simulate_sampling invocations of the last script run
    attempt             \* how the simulation attempt of the last script run ended

vars == <<distributions, clt_distributions, op, dist_name, params, caller_params, x_range,
          sample_size, num_samples, size, sample_means, env, ret, constructed, drawn,
          session_state, page, shown, rerun_pending, event, invoked, attempt>>

-----------------------------------------------------------------------------
(* Bounds of the model *)

\* how far outside (and inside) [min, max] the raw numeric values reach
Overshoot == 1
\* sample_size ranges over 1..MaxSampleSize
MaxSampleSize == 2
\* num_samples ranges over 1..MaxNumSamples
MaxNumSamples == 3
\* size (generate_population_sample) ranges over 1..MaxSize
MaxSize == 2

-----------------------------------------------------------------------------
(* Python values and the builtins min / max *)

Num(n) == [k |-> "num", v |-> n]
NaN == [k |-> "nan", v |-> 0]
PosInf == [k |-> "inf", v |-> 0]
NegInf == [k |-> "ninf", v |-> 0]
None == [k |-> "none", v |-> 0]

IsReal(a) == a.k \in {"num", "nan", "inf", "ninf"}

\* a < b on Python ints/floats: every comparison with nan is False
PyLt(a, b) ==
    IF a.k = "nan" \/ b.k = "nan" THEN FALSE
    ELSE IF a.k = "ninf" THEN b.k # "ninf"
    ELSE IF a.k = "inf" THEN FALSE
    ELSE IF b.k = "ninf" THEN FALSE
    ELSE IF b.k = "inf" THEN TRUE
    ELSE a.v < b.v

\* the builtin min(a, b): keeps a unless b < a.  max(a, b): keeps a unless b > a.
\* Ordering a non-number raises TypeError, modelled by the value Raised.
TypeError == [k |-> "TypeError", v |-> 0]
Comparable(a, b) == IsReal(a) /\ IsReal(b)

PyMin(a, b) == IF ~Comparable(a, b) THEN TypeError ELSE IF PyLt(b, a) THEN b ELSE a

PyMax(a, b) == IF ~Comparable(a, b) THEN TypeError ELSE IF PyLt(a, b) THEN b ELSE a

-----------------------------------------------------------------------------
(* The Explorer catalog, DistributionExplorer.__init__ *)

ParamConfig(d, lo, hi, st) == [default |-> Num(d), min |-> Num(lo), max |-> Num(hi), step |-> st]

P1(n1, c1) == [x \in {n1} |-> c1]
P2(n1, c1, n2, c2) == [x \in {n1, n2} |-> IF x = n1 THEN c1 ELSE c2]

DistConfig(t, f, p, s) == [type |-> t, func |-> f, params |-> p, support |-> s]

ExplorerNames ==
    <<"Normal", "Uniform", "Exponential", "Gamma", "Beta", "ChiSquare", "StudentT", "F",
      "Binomial", "Poisson", "Geometric", "NegBinomial">>

ExplorerCatalog ==
    [n \in {ExplorerNames[i] : i \in 1..Len(ExplorerNames)} |->
        CASE n = "Normal" -> DistConfig("continuous", "norm",
                P2("loc", ParamConfig(0, -1000, 1000, 10), "scale", ParamConfig(100, 10, 500, 10)),
                "(-inf, +inf)")
          [] n = "Uniform" -> DistConfig("continuous", "uniform",
                P2("loc", ParamConfig(0, -500, 500, 10), "scale", ParamConfig(100, 10, 1000, 10)),
                "[a, b]")
          [] n = "Exponential" -> DistConfig("continuous", "expon",
                P1("scale", ParamConfig(100, 10, 500, 10)),
                "[0, +inf)")
          [] n = "Gamma" -> DistConfig("continuous", "gamma",
                P2("a", ParamConfig(200, 10, 1000, 10), "scale", ParamConfig(100, 10, 500, 10)),
                "[0, +inf)")
          [] n = "Beta" -> DistConfig("continuous", "beta",
                P2("a", ParamConfig(200, 10, 1000, 10), "b", ParamConfig(500, 10, 1000, 10)),
                "[0, 1]")
          [] n = "ChiSquare" -> DistConfig("continuous", "chi2",
                P1("df", ParamConfig(300, 100, 2000, 100)),
                "[0, +inf)")
          [] n = "StudentT" -> DistConfig("continuous", "t",
                P1("df", ParamConfig(500, 100, 3000, 100)),
                "(-inf, +inf)")
          [] n = "F" -> DistConfig("continuous", "f",
                P2("dfn", ParamConfig(500, 100, 2000, 100), "dfd", ParamConfig(1000, 100, 3000, 100)),
                "[0, +inf)")
          [] n = "Binomial" -> DistConfig("discrete", "binom",
                P2("n", ParamConfig(1000, 100, 10000, 100), "p", ParamConfig(30, 1, 99, 1)),
                "{0, 1, 2, ..., n}")
          [] n = "Poisson" -> DistConfig("discrete", "poisson",
                P1("mu", ParamConfig(300, 10, 2000, 10)),
                "{0, 1, 2, ...}")
          [] n = "Geometric" -> DistConfig("discrete", "geom",
                P1("p", ParamConfig(30, 1, 99, 1)),
                "{1, 2, 3, ...}")
          [] n = "NegBinomial" -> DistConfig("discrete", "nbinom",
                P2("n", ParamConfig(500, 100, 2000, 100), "p", ParamConfig(30, 1, 99, 1)),
                "{0, 1, 2, ...}")]

-----------------------------------------------------------------------------
(* Outcomes of a call *)

NotCalled == [status |-> "none"]
Return(v) == [status |-> "return", value |-> v]
Raise(e) == [status |-> "raise", exc |-> e]

Returned == ret.status = "return"
Raised(e) == ret.status = "raise" /\ ret.exc = e

-----------------------------------------------------------------------------
(* DistributionExplorer._validate_params *)

\* dict.get(key, default)
DictGet(d, key, default) == IF key \in DOMAIN d THEN d[key] ELSE default

\* mutant: the lower bound is forgotten
ClampUpperOnly(param_config, value) == PyMin(param_config.max, value)

\* mutant: a sign slip, the negated value is clamped
ClampNegated(param_config, value) ==
    PyMax(param_config.min, PyMin(param_config.max,
        IF value.k = "num" THEN Num(0 - value.v) ELSE value))

\* line 183: max(min_val, min(max_val, value))
Clamp(param_config, value) == PyMax(param_config.min, PyMin(param_config.max, value))

\* mutant: a parameter the caller leaves out gets the minimum, not the default
ValidateParamsMinDefault(cat, name, raw) ==
    IF name \notin DOMAIN cat THEN Raise("KeyError")
    ELSE LET cfg == cat[name].params
             validated == [p \in DOMAIN cfg |-> Clamp(cfg[p], DictGet(raw, p, cfg[p].min))]
         IN IF \E p \in DOMAIN cfg : validated[p] = TypeError
            THEN Raise("TypeError")
            ELSE Return(validated)

\* mutant: params[param_name] in place of params.get, a missing key raises
ValidateParamsIndexed(cat, name, raw) ==
    IF name \notin DOMAIN cat THEN Raise("KeyError")
    ELSE LET cfg == cat[name].params
             validated == [p \in DOMAIN cfg |-> Clamp(cfg[p], DictGet(raw, p, cfg[p].default))]
         IN IF \E p \in DOMAIN cfg : p \notin DOMAIN raw
            THEN Raise("KeyError")
            ELSE IF \E p \in DOMAIN cfg : validated[p] = TypeError
            THEN Raise("TypeError")
            ELSE Return(validated)

\* the loop of lines 177-183 over the declared parameters; the first value that
\* cannot be ordered ends the call with TypeError, a name missing from the
\* catalog ends it at line 174 with KeyError
ValidateParams(cat, name, raw) ==
    IF name \notin DOMAIN cat THEN Raise("KeyError")
    ELSE LET cfg == cat[name].params
             validated == [p \in DOMAIN cfg |-> Clamp(cfg[p], DictGet(raw, p, cfg[p].default))]
         IN IF \E p \in DOMAIN cfg : validated[p] = TypeError
            THEN Raise("TypeError")
            ELSE Return(validated)


-----------------------------------------------------------------------------
(* The frozen distribution objects of scipy.stats                           *)
(* A generator is the pair of the scipy family and the keyword arguments it *)
(* was frozen with.  What its methods compute is scipy's business: a method *)
(* call either yields the value scipy computes (a symbolic value here) or   *)
(* raises, and which of the two is the environment's choice.                *)

Generator(func, kwargs) == [func |-> func, kwargs |-> kwargs]

\* the value scipy returns for statistic `stat` of the generator in use
Computed(stat) == [k |-> stat, v |-> 0]

\* the method calls of the try block of get_distribution_info, in order
ContinuousCalls == <<"mean", "var", "std", "ppf25", "ppf50", "ppf75", "skew", "kurt">>
DiscreteCalls == <<"mean", "var", "std">>

SeqRange(s) == {s[i] : i \in 1..Len(s)}

-----------------------------------------------------------------------------
(* DistributionExplorer.get_distribution_info *)

\* lines 138-154: the statistics; `raises` is the set of method calls that raise.
\* One try block covers them all, so the first raise sends every field to nan.
ExplorerStatistics(type, raises) ==
    LET calls == IF type = "continuous" THEN ContinuousCalls ELSE DiscreteCalls
    IN IF SeqRange(calls) \cap raises # {}
       THEN [mean |-> NaN, variance |-> NaN, std |-> NaN, q25 |-> NaN, median |-> NaN,
             q75 |-> NaN, skewness |-> NaN, kurtosis |-> NaN]
       ELSE IF type = "continuous"
       THEN [mean |-> Computed("mean"), variance |-> Computed("var"), std |-> Computed("std"),
             q25 |-> Computed("ppf25"), median |-> Computed("ppf50"),
             q75 |-> Computed("ppf75"), skewness |-> Computed("skew"),
             kurtosis |-> Computed("kurt")]
       ELSE [mean |-> Computed("mean"), variance |-> Computed("var"), std |-> Computed("std"),
             q25 |-> None, median |-> None, q75 |-> None, skewness |-> None,
             kurtosis |-> None]

\* mutant: the generator is built from the caller's values, unclamped
ExplorerGetDistributionInfoRaw(cat, name, raw, raises) ==
    IF name \notin DOMAIN cat
    THEN [ret |-> Raise("ValueError"), constructed |-> <<>>]
    ELSE LET dist_config == cat[name]
             validated == ValidateParams(cat, name, raw)
         IN IF validated.status = "raise"
            THEN [ret |-> validated, constructed |-> <<>>]
            ELSE LET kwargs == [p \in DOMAIN dist_config.params |->
                                   DictGet(raw, p, dist_config.params[p].default)]
                     distribution == Generator(dist_config.func, kwargs)
                     st == ExplorerStatistics(dist_config.type, raises)
                 IN [ret |-> Return([name |-> name, type |-> dist_config.type,
                                     distribution |-> distribution,
                                     params |-> validated.value,
                                     support |-> dist_config.support,
                                     mean |-> st.mean, variance |-> st.variance,
                                     std |-> st.std, q25 |-> st.q25, median |-> st.median,
                                     q75 |-> st.q75, skewness |-> st.skewness,
                                     kurtosis |-> st.kurtosis]),
                     constructed |-> <<distribution>>]

\* the whole method: [ret |-> outcome, constructed |-> generators built]
ExplorerGetDistributionInfo(cat, name, raw, raises) ==
    IF name \notin DOMAIN cat
    THEN [ret |-> Raise("ValueError"), constructed |-> <<>>]
    ELSE LET dist_config == cat[name]
             validated == ValidateParams(cat, name, raw)
         IN IF validated.status = "raise"
            THEN [ret |-> validated, constructed |-> <<>>]
            ELSE LET distribution == Generator(dist_config.func, validated.value)
                     st == ExplorerStatistics(dist_config.type, raises)
                 IN [ret |-> Return([name |-> name, type |-> dist_config.type,
                                     distribution |-> distribution,
                                     params |-> validated.value,
                                     support |-> dist_config.support,
                                     mean |-> st.mean, variance |-> st.variance,
                                     std |-> st.std, q25 |-> st.q25, median |-> st.median,
                                     q75 |-> st.q75, skewness |-> st.skewness,
                                     kurtosis |-> st.kurtosis]),
                     constructed |-> <<distribution>>]

-----------------------------------------------------------------------------
(* DistributionExplorer.get_param_config *)

GetParamConfig(cat, name) ==
    IF name \notin DOMAIN cat THEN Raise("ValueError") ELSE Return(cat[name].params)


-----------------------------------------------------------------------------
(* Float arithmetic on values (hundredths), with the IEEE specials *)

RaiseMark == [k |-> "raise", v |-> 0]

IsInf(a) == a.k \in {"inf", "ninf"}

FNeg(a) ==
    IF a.k = "num" THEN Num(0 - a.v)
    ELSE IF a.k = "inf" THEN NegInf
    ELSE IF a.k = "ninf" THEN PosInf
    ELSE a

FAdd(a, b) ==
    IF a.k = "nan" \/ b.k = "nan" THEN NaN
    ELSE IF a.k = "num" /\ b.k = "num" THEN Num(a.v + b.v)
    ELSE IF a.k = "num" THEN b
    ELSE IF b.k = "num" THEN a
    ELSE IF a.k = b.k THEN a
    ELSE NaN

\* n * a for a positive integer n
FScale(n, a) == IF a.k = "num" THEN Num(n * a.v) ELSE a

\* int(a): truncation toward zero; nan and the infinities raise
PyInt(a) ==
    IF a.k = "nan" THEN RaiseMark
    ELSE IF IsInf(a) THEN RaiseMark
    ELSE IF a.v >= 0 THEN Num((a.v \div 100) * 100)
    ELSE Num(0 - (((0 - a.v) \div 100) * 100))

-----------------------------------------------------------------------------
(* DistributionExplorer.calculate_pdf_pmf *)

\* default of the argument num_points
NumPoints == 1000
\* line 219: the widest automatic span of a discrete domain
MaxSpan == 10000

NoRange == [given |-> FALSE, lo |-> Num(0), hi |-> Num(0)]
Range(lo, hi) == [given |-> TRUE, lo |-> lo, hi |-> hi]

Bounds(lo, hi) == [failed |-> FALSE, error |-> "", x_min |-> lo, x_max |-> hi]
BoundsFailed(e) == [failed |-> TRUE, error |-> e, x_min |-> Num(0), x_max |-> Num(0)]

\* the exception of int(a): ValueError for nan, OverflowError for an infinity
IntError(a) == IF a.k = "nan" THEN "ValueError" ELSE "OverflowError"

\* mutant: both bounds are replaced as soon as one quantile is infinite
ContinuousAutoBoundsBoth(lib) ==
    IF lib.ppf_lo = RaiseMark \/ lib.ppf_hi = RaiseMark
    THEN Bounds(Num(-500), Num(500))
    ELSE IF ~(IsInf(lib.ppf_lo) \/ IsInf(lib.ppf_hi))
    THEN Bounds(lib.ppf_lo, lib.ppf_hi)
    ELSE IF lib.mean = RaiseMark \/ lib.std = RaiseMark
    THEN Bounds(Num(-500), Num(500))
    ELSE Bounds(FAdd(lib.mean, FNeg(FScale(4, lib.std))), FAdd(lib.mean, FScale(4, lib.std)))

\* lines 198-206: lib.ppf_lo, lib.ppf_hi, lib.mean, lib.std are what
\* ppf(0.001), ppf(0.999), mean() and std() yield (a value or RaiseMark)
ContinuousAutoBounds(lib) ==
    IF lib.ppf_lo = RaiseMark \/ lib.ppf_hi = RaiseMark
    THEN Bounds(Num(-500), Num(500))
    ELSE IF (IsInf(lib.ppf_lo) \/ IsInf(lib.ppf_hi))
            /\ (lib.mean = RaiseMark \/ lib.std = RaiseMark)
    THEN Bounds(Num(-500), Num(500))
    ELSE Bounds(IF IsInf(lib.ppf_lo) THEN FAdd(lib.mean, FNeg(FScale(4, lib.std)))
                ELSE lib.ppf_lo,
                IF IsInf(lib.ppf_hi) THEN FAdd(lib.mean, FScale(4, lib.std))
                ELSE lib.ppf_hi)

\* lines 216-222
DiscreteAutoBounds(lib) ==
    IF lib.ppf_lo = RaiseMark \/ PyInt(lib.ppf_lo) = RaiseMark
       \/ lib.ppf_hi = RaiseMark \/ PyInt(lib.ppf_hi) = RaiseMark
    THEN Bounds(Num(0), Num(2000))
    ELSE LET x_min == PyMax(Num(0), PyInt(lib.ppf_lo))
             x_max == PyInt(lib.ppf_hi)
         IN Bounds(x_min, IF x_max.v - x_min.v > MaxSpan THEN Num(x_min.v + MaxSpan) ELSE x_max)

\* line 224: int() of a nan or an infinite bound raises, outside any try
DiscreteGivenBounds(range) ==
    IF PyInt(range.lo) = RaiseMark THEN BoundsFailed(IntError(range.lo))
    ELSE IF PyInt(range.hi) = RaiseMark THEN BoundsFailed(IntError(range.hi))
    ELSE Bounds(PyInt(range.lo), PyInt(range.hi))

\* mutant: the end point is left out (endpoint=False)
LinspaceOpen(x_min, x_max, num) ==
    [kind |-> "linspace", start |-> x_min, stop |-> x_max, len |-> num, div |-> num]

\* np.linspace(x_min, x_max, num_points): num points, the i-th (from 0) being
\* start + i * (stop - start) / div with div = num - 1 (endpoint=True)
Linspace(x_min, x_max, num) ==
    [kind |-> "linspace", start |-> x_min, stop |-> x_max, len |-> num, div |-> num - 1]

\* the i-th point of a linspace between two finite numbers, times x.div
PointTimesDiv(x, i) == x.start.v * x.div + i * (x.stop.v - x.start.v)

\* np.arange(x_min, x_max + 1): the integers x_min .. x_max, none when x_max < x_min
Arange(x_min, x_max) ==
    [kind |-> "arange", start |-> x_min, stop |-> x_max,
     len |-> IF x_max.v < x_min.v THEN 0 ELSE (x_max.v - x_min.v) \div 100 + 1]

Curve(x, density) == [x |-> x, y |-> [kind |-> density, len |-> x.len]]

\* the whole method: [ret |-> outcome, constructed |-> generators built]
CalculatePdfPmf(cat, name, raw, range, lib) ==
    LET dist_info == ExplorerGetDistributionInfo(cat, name, raw, lib.raises)
    IN IF dist_info.ret.status = "raise"
       THEN dist_info
       ELSE LET dist_type == dist_info.ret.value.type
                b == IF dist_type = "continuous"
                     THEN IF range.given THEN Bounds(range.lo, range.hi)
                          ELSE ContinuousAutoBounds(lib)
                     ELSE IF range.given THEN DiscreteGivenBounds(range)
                          ELSE DiscreteAutoBounds(lib)
            IN [ret |-> IF b.failed THEN Raise(b.error)
                        ELSE IF dist_type = "continuous"
                        THEN Return(Curve(Linspace(b.x_min, b.x_max, NumPoints), "pdf"))
                        ELSE Return(Curve(Arange(b.x_min, b.x_max), "pmf")),
                constructed |-> dist_info.constructed]

-----------------------------------------------------------------------------
(* DistributionExplorer.get_scenario_description *)

\* the parameter each template reads, with the default its params.get names
ScenarioFields(name) ==
    CASE name = "Normal" -> <<[key |-> "loc", default |-> Num(0), fmt |-> ".1f"],
                              [key |-> "scale", default |-> Num(100), fmt |-> ".1f"]>>
      [] name = "Uniform" -> <<[key |-> "loc", default |-> Num(0), fmt |-> ".1f"],
                               [key |-> "scale", default |-> Num(100), fmt |-> ".1f"]>>
      [] name = "Exponential" -> <<[key |-> "scale", default |-> Num(100), fmt |-> ".1f"]>>
      [] name = "Gamma" -> <<[key |-> "a", default |-> Num(200), fmt |-> ".0f"],
                             [key |-> "scale", default |-> Num(100), fmt |-> ".1f"]>>
      [] name = "Beta" -> <<[key |-> "a", default |-> Num(200), fmt |-> ".0f"],
                            [key |-> "b", default |-> Num(500), fmt |-> ".0f"]>>
      [] name = "ChiSquare" -> <<[key |-> "df", default |-> Num(300), fmt |-> ".0f"]>>
      [] name = "StudentT" -> <<[key |-> "df", default |-> Num(500), fmt |-> ".0f"]>>
      [] name = "F" -> <<[key |-> "dfn", default |-> Num(500), fmt |-> ".0f"],
                         [key |-> "dfd", default |-> Num(1000), fmt |-> ".0f"]>>
      [] name = "Binomial" -> <<[key |-> "n", default |-> Num(1000), fmt |-> ".0f"],
                                [key |-> "p", default |-> Num(30), fmt |-> ".1%"]>>
      [] name = "Poisson" -> <<[key |-> "mu", default |-> Num(300), fmt |-> ".1f"]>>
      [] name = "Geometric" -> <<[key |-> "p", default |-> Num(30), fmt |-> ".1%"]>>
      [] name = "NegBinomial" -> <<[key |-> "p", default |-> Num(30), fmt |-> ".1%"],
                                   [key |-> "n", default |-> Num(500), fmt |-> ".0f"]>>
      [] OTHER -> <<>>

\* every key some template formats: the dictionary of lines 233-246 is built
\* whole, whichever name is asked for
ScenarioKeys == {"loc", "scale", "a", "b", "df", "dfn", "dfd", "n", "p", "mu"}

\* the text of value under a format specification
Format(fmt, value) == [fmt |-> fmt, of |-> value]

\* the value the i-th field of a template shows: params.get(key, default),
\* and for the second field of the uniform template the upper end
\* params.get('loc', 0) + params.get('scale', 1)
ScenarioValue(name, i, values) ==
    LET f == ScenarioFields(name)
    IN IF name = "Uniform" /\ i = 2
       THEN FAdd(DictGet(values, "loc", Num(0)), DictGet(values, "scale", Num(100)))
       ELSE DictGet(values, f[i].key, f[i].default)

\* mutant: the templates show the clamped parameters
GetScenarioDescriptionClamped(name, raw) ==
    IF \E key \in ScenarioKeys \cap DOMAIN raw : ~IsReal(raw[key])
    THEN Raise("TypeError")
    ELSE IF ScenarioFields(name) = <<>>
    THEN Return([template |-> "placeholder", fields |-> <<>>])
    ELSE LET f == ScenarioFields(name)
             v == ValidateParams(ExplorerCatalog, name, raw)
             clamped == IF v.status = "return" THEN v.value ELSE raw
         IN Return([template |-> name,
                    fields |-> [i \in 1..Len(f) |->
                                   Format(f[i].fmt, ScenarioValue(name, i, clamped))]])

\* lines 233-247
GetScenarioDescription(name, raw) ==
    IF \E key \in ScenarioKeys \cap DOMAIN raw : ~IsReal(raw[key])
    THEN Raise("TypeError")
    ELSE IF ScenarioFields(name) = <<>>
    THEN Return([template |-> "placeholder", fields |-> <<>>])
    ELSE LET f == ScenarioFields(name)
         IN Return([template |-> name,
                    fields |-> [i \in 1..Len(f) |->
                                   Format(f[i].fmt, ScenarioValue(name, i, raw))]])


-----------------------------------------------------------------------------
(* DistributionExplorer.get_available_distributions *)

\* the names whose type is "continuous" (when continuous is TRUE) or is
\* anything else (when it is FALSE), in the order of the sequence
RECURSIVE NamesOfKind(_, _, _)
NamesOfKind(names, cat, continuous) ==
    IF names = <<>> THEN <<>>
    ELSE IF (cat[Head(names)].type = "continuous") = continuous
    THEN <<Head(names)>> \o NamesOfKind(Tail(names), cat, continuous)
    ELSE NamesOfKind(Tail(names), cat, continuous)

\* mutant: the else is lost, every name is appended to the discrete list
GetAvailableDistributionsNoElse(cat) ==
    Return([continuous |-> NamesOfKind(ExplorerNames, cat, TRUE),
            discrete |-> ExplorerNames])

\* lines 251-260: self.distributions.items() yields the names in catalog
\* order; the keys of the result stand for its two group titles
GetAvailableDistributions(cat) ==
    Return([continuous |-> NamesOfKind(ExplorerNames, cat, TRUE),
            discrete |-> NamesOfKind(ExplorerNames, cat, FALSE)])

-----------------------------------------------------------------------------
(* Exact arithmetic for the CLT engine                                      *)
(* A number is a fraction [num, den] in lowest terms with den > 0; the      *)
(* fraction 0/0 is nan (what numpy yields for 0.0 / 0).  Rounding of the    *)
(* floating-point operations is not modelled.                               *)

RECURSIVE GCD(_, _)
GCD(a, b) == IF b = 0 THEN a ELSE GCD(b, a % b)

Abs(n) == IF n < 0 THEN 0 - n ELSE n

RNaN == [num |-> 0, den |-> 0]

Rat(n, d) ==
    IF d = 0 THEN RNaN
    ELSE LET g == GCD(Abs(n), Abs(d))
             sgn == IF d < 0 THEN -1 ELSE 1
         IN [num |-> sgn * (n \div g), den |-> sgn * (d \div g)]

RInt(n) == [num |-> n, den |-> 1]
RIsNaN(a) == a.den = 0
RAdd(a, b) == IF RIsNaN(a) \/ RIsNaN(b) THEN RNaN ELSE Rat(a.num * b.den + b.num * a.den, a.den * b.den)
RSub(a, b) == IF RIsNaN(a) \/ RIsNaN(b) THEN RNaN ELSE Rat(a.num * b.den - b.num * a.den, a.den * b.den)
RMul(a, b) == IF RIsNaN(a) \/ RIsNaN(b) THEN RNaN ELSE Rat(a.num * b.num, a.den * b.den)
\* a / b; only 0 / 0 occurs with a zero divisor here, and it is nan
RDiv(a, b) == IF RIsNaN(a) \/ RIsNaN(b) THEN RNaN ELSE Rat(a.num * b.den, a.den * b.num)

\* a parameter value of a catalog (hundredths) as a fraction
OfHundredths(v) == Rat(v, 100)

\* the non-negative square root of a fraction, kept by its square
Sqrt(a) == [sq |-> a]
\* the quotient of two square roots
SqrtDiv(a, b) == [sq |-> RDiv(a.sq, b.sq)]

RECURSIVE RSum(_)
RSum(s) == IF s = <<>> THEN RInt(0) ELSE RAdd(Head(s), RSum(Tail(s)))

\* np.mean(a)
NpMean(a) == RDiv(RSum(a), RInt(Len(a)))

\* np.var(a, ddof): the squared deviations from the mean, over len(a) - ddof
NpVar(a, ddof) ==
    LET mu == NpMean(a)
        dev == [i \in 1..Len(a) |-> RMul(RSub(a[i], mu), RSub(a[i], mu))]
    IN RDiv(RSum(dev), RInt(Len(a) - ddof))

\* np.std(a, ddof)
NpStd(a, ddof) == Sqrt(NpVar(a, ddof))

-----------------------------------------------------------------------------
(* The CLT catalog, CLTSimulator.__init__ *)

CLTNames ==
    <<"Uniform", "Normal", "Exponential", "Poisson", "Gamma", "Beta", "ChiSquare", "Binomial">>

K1(n1, v1) == [x \in {n1} |-> v1]
K2(n1, v1, n2, v2) == [x \in {n1, n2} |-> IF x = n1 THEN v1 ELSE v2]

CLTCatalog ==
    [n \in SeqRange(CLTNames) |->
        CASE n = "Uniform" -> [func |-> "uniform", params |-> K2("loc", 0, "scale", 100)]
          [] n = "Normal" -> [func |-> "norm", params |-> K2("loc", 0, "scale", 100)]
          [] n = "Exponential" -> [func |-> "expon", params |-> K1("scale", 100)]
          [] n = "Poisson" -> [func |-> "poisson", params |-> K1("mu", 300)]
          [] n = "Gamma" -> [func |-> "gamma", params |-> K2("a", 200, "scale", 100)]
          [] n = "Beta" -> [func |-> "beta", params |-> K2("a", 200, "b", 500)]
          [] n = "ChiSquare" -> [func |-> "chi2", params |-> K1("df", 300)]
          [] n = "Binomial" -> [func |-> "binom", params |-> K2("n", 1000, "p", 30)]]

\* dist.mean() and dist.var() of the frozen scipy distribution: the closed forms
DistMean(dist) ==
    LET kw == [key \in DOMAIN dist.kwargs |-> OfHundredths(dist.kwargs[key])]
    IN CASE dist.func = "uniform" -> RAdd(kw["loc"], RDiv(kw["scale"], RInt(2)))
         [] dist.func = "norm" -> kw["loc"]
         [] dist.func = "expon" -> kw["scale"]
         [] dist.func = "poisson" -> kw["mu"]
         [] dist.func = "gamma" -> RMul(kw["a"], kw["scale"])
         [] dist.func = "beta" -> RDiv(kw["a"], RAdd(kw["a"], kw["b"]))
         [] dist.func = "chi2" -> kw["df"]
         [] dist.func = "binom" -> RMul(kw["n"], kw["p"])

DistVar(dist) ==
    LET kw == [key \in DOMAIN dist.kwargs |-> OfHundredths(dist.kwargs[key])]
    IN CASE dist.func = "uniform" -> RDiv(RMul(kw["scale"], kw["scale"]), RInt(12))
         [] dist.func = "norm" -> RMul(kw["scale"], kw["scale"])
         [] dist.func = "expon" -> RMul(kw["scale"], kw["scale"])
         [] dist.func = "poisson" -> kw["mu"]
         [] dist.func = "gamma" -> RMul(kw["a"], RMul(kw["scale"], kw["scale"]))
         [] dist.func = "beta" ->
                LET ab == RAdd(kw["a"], kw["b"])
                IN RDiv(RMul(kw["a"], kw["b"]), RMul(RMul(ab, ab), RAdd(ab, RInt(1))))
         [] dist.func = "chi2" -> RMul(RInt(2), kw["df"])
         [] dist.func = "binom" -> RMul(RMul(kw["n"], kw["p"]), RSub(RInt(1), kw["p"]))

-----------------------------------------------------------------------------
(* CLTSimulator.get_distribution_info *)

\* the method calls of its try block, in order
CLTCalls == <<"mean", "var", "std">>

\* mutant: a name missing from the catalog silently falls back to its first entry
CLTGetDistributionInfoDefaulting(cat, name, raises) ==
    LET known == IF name \in DOMAIN cat THEN name ELSE CLTNames[1]
        dist_info == cat[known]
        dist == Generator(dist_info.func, dist_info.params)
        failed == SeqRange(CLTCalls) \cap raises # {}
    IN [ret |-> Return([name |-> name, distribution |-> dist,
                        params |-> dist_info.params,
                        theoretical_mean |-> IF failed THEN RNaN ELSE DistMean(dist),
                        theoretical_var |-> IF failed THEN RNaN ELSE DistVar(dist),
                        theoretical_std |-> IF failed THEN Sqrt(RNaN)
                                            ELSE Sqrt(DistVar(dist))]),
        constructed |-> <<dist>>]

\* mutant: each moment has a try of its own, only the one that raises is nan
CLTGetDistributionInfoPerField(cat, name, raises) ==
    IF name \notin DOMAIN cat
    THEN [ret |-> Raise("ValueError"), constructed |-> <<>>]
    ELSE LET dist_info == cat[name]
             dist == Generator(dist_info.func, dist_info.params)
         IN [ret |-> Return([name |-> name, distribution |-> dist,
                             params |-> dist_info.params,
                             theoretical_mean |-> IF "mean" \in raises THEN RNaN
                                                  ELSE DistMean(dist),
                             theoretical_var |-> IF "var" \in raises THEN RNaN
                                                 ELSE DistVar(dist),
                             theoretical_std |-> IF "std" \in raises THEN Sqrt(RNaN)
                                                 ELSE Sqrt(DistVar(dist))]),
             constructed |-> <<dist>>]

\* `raises` is the set of method calls that raise; the bare except of lines
\* 40-44 then sets all three moments to nan
CLTGetDistributionInfo(cat, name, raises) ==
    IF name \notin DOMAIN cat
    THEN [ret |-> Raise("ValueError"), constructed |-> <<>>]
    ELSE LET dist_info == cat[name]
             dist == Generator(dist_info.func, dist_info.params)
             failed == SeqRange(CLTCalls) \cap raises # {}
         IN [ret |-> Return([name |-> name, distribution |-> dist,
                             params |-> dist_info.params,
                             theoretical_mean |-> IF failed THEN RNaN ELSE DistMean(dist),
                             theoretical_var |-> IF failed THEN RNaN ELSE DistVar(dist),
                             theoretical_std |-> IF failed THEN Sqrt(RNaN)
                                                 ELSE Sqrt(DistVar(dist))]),
             constructed |-> <<dist>>]

-----------------------------------------------------------------------------
(* CLTSimulator.generate_population_sample *)

\* the values a variate takes in the model
DrawVals == {1, 3}

\* rvs(size=n): n variates, the environment's choice
Samples(n) == [1..n -> DrawVals]

\* [ret, constructed, drawn]; `sample` is what rvs(size=size) yields
GeneratePopulationSample(cat, name, raises, sample) ==
    LET dist_info == CLTGetDistributionInfo(cat, name, raises)
    IN IF dist_info.ret.status = "raise"
       THEN [ret |-> dist_info.ret, constructed |-> dist_info.constructed, drawn |-> <<>>]
       ELSE [ret |-> Return(sample), constructed |-> dist_info.constructed,
             drawn |-> <<sample>>]

-----------------------------------------------------------------------------
(* CLTSimulator.simulate_sampling *)

\* mutant: each batch is reduced to its sum, not its mean
SampleMeansSum(batches) ==
    [i \in 1..Len(batches) |-> RSum([j \in 1..Len(batches[i]) |-> RInt(batches[i][j])])]

\* lines 78-83: one mean per batch
SampleMeans(batches) ==
    [i \in 1..Len(batches) |-> NpMean([j \in 1..Len(batches[i]) |-> RInt(batches[i][j])])]

\* mutant: ddof=1 is left out, the divisor is m
StatisticsPopulation(dist_info, means, n, m) ==
    [sample_mean_mean |-> NpMean(means),
     sample_mean_var |-> NpVar(means, 0),
     sample_mean_std |-> NpStd(means, 0),
     theoretical_mean |-> dist_info.theoretical_mean,
     theoretical_std_of_means |-> SqrtDiv(dist_info.theoretical_std, Sqrt(RInt(n))),
     sample_size |-> n,
     num_samples |-> m]

\* lines 86-102
Statistics(dist_info, means, n, m) ==
    [sample_mean_mean |-> NpMean(means),
     sample_mean_var |-> NpVar(means, 1),
     sample_mean_std |-> NpStd(means, 1),
     theoretical_mean |-> dist_info.theoretical_mean,
     theoretical_std_of_means |-> SqrtDiv(dist_info.theoretical_std, Sqrt(RInt(n))),
     sample_size |-> n,
     num_samples |-> m]

\* [ret, constructed, drawn]; batches[i] is what the i-th rvs(size=n) yields
SimulateSampling(cat, name, n, m, raises, batches) ==
    LET dist_info == CLTGetDistributionInfo(cat, name, raises)
    IN IF dist_info.ret.status = "raise"
       THEN [ret |-> dist_info.ret, constructed |-> dist_info.constructed, drawn |-> <<>>]
       ELSE LET means == SampleMeans(batches)
            IN [ret |-> Return([sample_means |-> means,
                                statistics |-> Statistics(dist_info.ret.value,
                                                          means, n, m)]),
                constructed |-> dist_info.constructed,
                drawn |-> batches]

-----------------------------------------------------------------------------
(* CLTSimulator.calculate_normality_test *)

\* what a scipy test yields: "value" (a statistic and a p-value), "nan" (it
\* returns nan for both, with a warning) or "raise"
TestOutcomes == {"value", "nan", "raise"}

\* a number a test returned
TestNumber(test, field, outcome) ==
    [test |-> test, field |-> field, nan |-> outcome = "nan"]

\* np.nan put in place of a statistic by the except branch
TestUndefined == [test |-> "none", field |-> "nan", nan |-> TRUE]

\* the reference distribution of kstest: 'norm' with
\* args=(np.mean(sample_means), np.std(sample_means))
KsReference(a) == [cdf |-> "norm", loc |-> NpMean(a), scale |-> NpStd(a, 0)]

\* mutant: each test has a try of its own, the other one keeps its numbers
CalculateNormalityTestPerTest(a, lib) ==
    IF lib.shapiro # "raise" /\ lib.ks # "raise"
    THEN Return([shapiro_statistic |-> TestNumber("shapiro", "statistic", lib.shapiro),
                 shapiro_p_value |-> TestNumber("shapiro", "pvalue", lib.shapiro),
                 ks_statistic |-> TestNumber("kstest", "statistic", lib.ks),
                 ks_p_value |-> TestNumber("kstest", "pvalue", lib.ks),
                 ks_reference |-> KsReference(a)])
    ELSE Return([shapiro_statistic |-> IF lib.shapiro = "raise" THEN TestUndefined
                     ELSE TestNumber("shapiro", "statistic", lib.shapiro),
                 shapiro_p_value |-> IF lib.shapiro = "raise" THEN TestUndefined
                     ELSE TestNumber("shapiro", "pvalue", lib.shapiro),
                 ks_statistic |-> IF lib.ks = "raise" THEN TestUndefined
                     ELSE TestNumber("kstest", "statistic", lib.ks),
                 ks_p_value |-> IF lib.ks = "raise" THEN TestUndefined
                     ELSE TestNumber("kstest", "pvalue", lib.ks),
                 error |-> [str |-> IF lib.shapiro = "raise" THEN "shapiro" ELSE "kstest"]])

\* lines 108-129: lib.shapiro and lib.ks are what stats.shapiro and
\* stats.kstest do; kstest is not reached when shapiro raises.  ks_reference
\* is no key of the dictionary: it records what kstest was called with.
CalculateNormalityTest(a, lib) ==
    IF lib.shapiro # "raise" /\ lib.ks # "raise"
    THEN Return([shapiro_statistic |-> TestNumber("shapiro", "statistic", lib.shapiro),
                 shapiro_p_value |-> TestNumber("shapiro", "pvalue", lib.shapiro),
                 ks_statistic |-> TestNumber("kstest", "statistic", lib.ks),
                 ks_p_value |-> TestNumber("kstest", "pvalue", lib.ks),
                 ks_reference |-> KsReference(a)])
    ELSE Return([shapiro_statistic |-> TestUndefined,
                 shapiro_p_value |-> TestUndefined,
                 ks_statistic |-> TestUndefined,
                 ks_p_value |-> TestUndefined,
                 error |-> [str |-> IF lib.shapiro = "raise" THEN "shapiro" ELSE "kstest"]])

-----------------------------------------------------------------------------
(* CLTSimulator.get_available_distributions *)

\* the keys of a catalog, in the order its entries were inserted
RECURSIVE KeysInOrder(_, _)
KeysInOrder(names, cat) ==
    IF names = <<>> THEN <<>>
    ELSE IF Head(names) \in DOMAIN cat
    THEN <<Head(names)>> \o KeysInOrder(Tail(names), cat)
    ELSE KeysInOrder(Tail(names), cat)

\* line 147: list(self.distributions.keys())
CLTGetAvailableDistributions(cat) == Return(KeysInOrder(CLTNames, cat))

-----------------------------------------------------------------------------
(* CLTSimulator.get_distribution_description *)

\* the text of the table for name, the text of line 143 for any other name
DescriptionNames ==
    {"Uniform", "Normal", "Exponential", "Poisson", "Gamma", "Beta", "ChiSquare", "Binomial"}

GetDistributionDescription(name) ==
    IF name \in DescriptionNames
    THEN Return([text |-> "description", of |-> name])
    ELSE Return([text |-> "no description", of |-> ""])


-----------------------------------------------------------------------------
(* The inputs of the calls *)

EmptyDict == [key \in {} |-> None]

\* names handed to the Explorer: its catalog and an unregistered name
ExplorerNameInputs == SeqRange(ExplorerNames) \cup {"Nonexistent"}

\* names handed to the CLT engine: its catalog, a name only the Explorer
\* registers, and an unregistered name
CLTNameInputs == SeqRange(CLTNames) \cup {"StudentT", "Nonexistent"}

Specials == {NaN, PosInf, NegInf, None}

\* raw values for a declared parameter: around both ends of [min, max], the
\* default, the float specials and a non-number
RawValues(c) ==
    {Num(c.min.v - d) : d \in 0..Overshoot} \cup {Num(c.max.v + d) : d \in 0..Overshoot}
        \cup {c.default} \cup Specials

\* the keys a raw mapping may hold: the declared ones and an undeclared one
RawKeys(name) ==
    IF name \in DOMAIN ExplorerCatalog
    THEN DOMAIN ExplorerCatalog[name].params \cup {"extra"}
    ELSE {"loc", "extra"}

RawValuesOf(name, key) ==
    IF name \in DOMAIN ExplorerCatalog /\ key \in DOMAIN ExplorerCatalog[name].params
    THEN RawValues(ExplorerCatalog[name].params[key])
    ELSE {Num(0), None}

AllRawValues(name) == UNION {RawValuesOf(name, key) : key \in RawKeys(name)}

RawParams(name) ==
    UNION {{f \in [K -> AllRawValues(name)] : \A key \in K : f[key] \in RawValuesOf(name, key)}
           : K \in SUBSET RawKeys(name)}

\* the sets of statistic calls that raise: none, or one of them
RaiseSets == {{}} \cup {{c} : c \in SeqRange(ContinuousCalls)}

NoEnv == [raises |-> {}]
InfoEnv(raises) == [raises |-> raises]

\* what ppf(0.001), ppf(0.999), mean() and std() yield in calculate_pdf_pmf
PpfLows == {Num(-250), Num(-100), Num(0), Num(300), NegInf, NaN, RaiseMark}
PpfHighs == {Num(350), Num(2000), Num(15000), PosInf, NaN, RaiseMark}
Means == {Num(50), RaiseMark}
Stds == {Num(100), PosInf, RaiseMark}

PdfEnvs ==
    [raises : {{}, {"mean"}}, ppf_lo : PpfLows, ppf_hi : PpfHighs, mean : Means, std : Stds]

\* the quantile of a discrete distribution is a whole number, when it is one
Whole(a) == a.k = "num" => a.v % 100 = 0

PdfEnvsOf(name) ==
    IF name \in DOMAIN ExplorerCatalog /\ ExplorerCatalog[name].type = "discrete"
    THEN {e \in PdfEnvs : Whole(e.ppf_lo) /\ Whole(e.ppf_hi)}
    ELSE PdfEnvs

PlainEnv ==
    [raises |-> {}, ppf_lo |-> Num(0), ppf_hi |-> Num(2000), mean |-> Num(50),
     std |-> Num(100)]

Ranges ==
    {Range(Num(-200), Num(200)), Range(Num(-250), Num(250)), Range(Num(150), Num(1050)),
     Range(Num(300), Num(100)), Range(NaN, Num(100)), Range(Num(0), PosInf)}

\* the calls of calculate_pdf_pmf: every raw mapping with the automatic range
\* or the range (-2, 2) and plain library answers, and the default parameters with every range
\* and every library answer
PdfCases(name) ==
    [raw : RawParams(name), range : {NoRange, Range(Num(-200), Num(200))}, env : {PlainEnv}]
        \cup [raw : {EmptyDict}, range : {NoRange} \cup Ranges, env : PdfEnvsOf(name)]

-----------------------------------------------------------------------------
(* State *)

Init ==
    /\ distributions = ExplorerCatalog
    /\ clt_distributions = CLTCatalog
    /\ op = "none"
    /\ dist_name = ""
    /\ params = EmptyDict
    /\ caller_params = EmptyDict
    /\ x_range = NoRange
    /\ sample_size = 0
    /\ num_samples = 0
    /\ size = 0
    /\ sample_means = <<>>
    /\ env = NoEnv
    /\ ret = NotCalled
    /\ constructed = <<>>
    /\ drawn = <<>>
    /\ session_state = EmptyDict
    /\ page = "Home"
    /\ shown = "Home"
    /\ rerun_pending = FALSE
    /\ event = "load"
    /\ invoked = <<>>
    /\ attempt = "none"

Catalogs == <<distributions, clt_distributions>>
ExplorerArgs == <<params, caller_params, x_range>>
CLTArgs == <<sample_size, num_samples, size, sample_means>>
\* the frame of one engine call
Call == <<op, dist_name, ExplorerArgs, CLTArgs, env, ret, constructed, drawn>>
\* the presentation layer: main.py and the two pages
UI == <<session_state, page, shown, rerun_pending, event, invoked, attempt>>

\* mutant: the clamped values are written back into the caller's mapping
CallValidateParamsInPlace ==
    /\ op = "none"
    /\ UNCHANGED UI
    /\ \E name \in ExplorerNameInputs : \E raw \in RawParams(name) :
        LET r == ValidateParams(distributions, name, raw)
        IN /\ op' = "_validate_params"
           /\ dist_name' = name
           /\ params' = raw
           /\ caller_params' = IF r.status = "return"
                                THEN [key \in DOMAIN raw \cup DOMAIN r.value |->
                                         IF key \in DOMAIN r.value THEN r.value[key]
                                         ELSE raw[key]]
                                ELSE raw
           /\ ret' = r
    /\ UNCHANGED <<Catalogs, x_range, CLTArgs, env, constructed, drawn>>

\* DistributionExplorer._validate_params(dist_name, params): the method reads
\* params and self.distributions and assigns to neither
CallValidateParams ==
    /\ op = "none"
    /\ UNCHANGED UI
    /\ \E name \in ExplorerNameInputs : \E raw \in RawParams(name) :
        /\ op' = "_validate_params"
        /\ dist_name' = name
        /\ params' = raw
        /\ caller_params' = raw
        /\ ret' = ValidateParams(distributions, name, raw)
    /\ UNCHANGED <<Catalogs, x_range, CLTArgs, env, constructed, drawn>>

\* DistributionExplorer.get_distribution_info(dist_name, params)
CallExplorerGetDistributionInfo ==
    /\ op = "none"
    /\ UNCHANGED UI
    /\ \E name \in ExplorerNameInputs : \E raw \in RawParams(name) : \E raises \in RaiseSets :
        LET r == ExplorerGetDistributionInfo(distributions, name, raw, raises)
        IN /\ op' = "explorer.get_distribution_info"
           /\ dist_name' = name
           /\ params' = raw
           /\ caller_params' = raw
           /\ env' = InfoEnv(raises)
           /\ ret' = r.ret
           /\ constructed' = r.constructed
    /\ UNCHANGED <<Catalogs, x_range, CLTArgs, drawn>>

\* DistributionExplorer.calculate_pdf_pmf(dist_name, params, x_range)
CallCalculatePdfPmf ==
    /\ op = "none"
    /\ UNCHANGED UI
    /\ \E name \in ExplorerNameInputs : \E c \in PdfCases(name) :
        LET r == CalculatePdfPmf(distributions, name, c.raw, c.range, c.env)
        IN /\ op' = "calculate_pdf_pmf"
           /\ dist_name' = name
           /\ params' = c.raw
           /\ caller_params' = c.raw
           /\ x_range' = c.range
           /\ env' = c.env
           /\ ret' = r.ret
           /\ constructed' = r.constructed
    /\ UNCHANGED <<Catalogs, CLTArgs, drawn>>

\* DistributionExplorer.get_scenario_description(dist_name, params)
CallGetScenarioDescription ==
    /\ op = "none"
    /\ UNCHANGED UI
    /\ \E name \in ExplorerNameInputs : \E raw \in RawParams(name) :
        /\ op' = "get_scenario_description"
        /\ dist_name' = name
        /\ params' = raw
        /\ caller_params' = raw
        /\ ret' = GetScenarioDescription(name, raw)
    /\ UNCHANGED <<Catalogs, x_range, CLTArgs, env, constructed, drawn>>

\* DistributionExplorer.get_available_distributions()
CallGetAvailableDistributions ==
    /\ op = "none"
    /\ UNCHANGED UI
    /\ op' = "get_available_distributions"
    /\ ret' = GetAvailableDistributions(distributions)
    /\ UNCHANGED <<Catalogs, dist_name, ExplorerArgs, CLTArgs, env, constructed, drawn>>

\* DistributionExplorer.get_param_config(dist_name)
CallGetParamConfig ==
    /\ op = "none"
    /\ UNCHANGED UI
    /\ \E name \in ExplorerNameInputs :
        /\ op' = "get_param_config"
        /\ dist_name' = name
        /\ ret' = GetParamConfig(distributions, name)
    /\ UNCHANGED <<Catalogs, ExplorerArgs, CLTArgs, env, constructed, drawn>>

\* CLTSimulator.get_distribution_info(dist_name)
CallCLTGetDistributionInfo ==
    /\ op = "none"
    /\ UNCHANGED UI
    /\ \E name \in CLTNameInputs : \E raises \in {{}} \cup {{c} : c \in SeqRange(CLTCalls)} :
        LET r == CLTGetDistributionInfo(clt_distributions, name, raises)
        IN /\ op' = "clt.get_distribution_info"
           /\ dist_name' = name
           /\ env' = InfoEnv(raises)
           /\ ret' = r.ret
           /\ constructed' = r.constructed
    /\ UNCHANGED <<Catalogs, ExplorerArgs, CLTArgs, drawn>>

\* CLTSimulator.generate_population_sample(dist_name, size)
CallGeneratePopulationSample ==
    /\ op = "none"
    /\ UNCHANGED UI
    /\ \E name \in CLTNameInputs : \E n \in 1..MaxSize : \E sample \in Samples(n) :
       \E raises \in {{}, {"var"}} :
        LET r == GeneratePopulationSample(clt_distributions, name, raises, sample)
        IN /\ op' = "generate_population_sample"
           /\ dist_name' = name
           /\ size' = n
           /\ env' = InfoEnv(raises)
           /\ ret' = r.ret
           /\ constructed' = r.constructed
           /\ drawn' = r.drawn
    /\ UNCHANGED <<Catalogs, ExplorerArgs, sample_size, num_samples, sample_means>>

\* CLTSimulator.simulate_sampling(dist_name, sample_size, num_samples)
CallSimulateSampling ==
    /\ op = "none"
    /\ UNCHANGED UI
    /\ \E name \in CLTNameInputs : \E n \in 1..MaxSampleSize : \E m \in 1..MaxNumSamples :
       \E batches \in [1..m -> Samples(n)] : \E raises \in {{}, {"var"}} :
        LET r == SimulateSampling(clt_distributions, name, n, m, raises, batches)
        IN /\ op' = "simulate_sampling"
           /\ dist_name' = name
           /\ sample_size' = n
           /\ num_samples' = m
           /\ env' = InfoEnv(raises)
           /\ ret' = r.ret
           /\ constructed' = r.constructed
           /\ drawn' = r.drawn
    /\ UNCHANGED <<Catalogs, ExplorerArgs, size, sample_means>>

\* CLTSimulator.get_distribution_description(dist_name)
CallGetDistributionDescription ==
    /\ op = "none"
    /\ UNCHANGED UI
    /\ \E name \in CLTNameInputs :
        /\ op' = "get_distribution_description"
        /\ dist_name' = name
        /\ ret' = GetDistributionDescription(name)
    /\ UNCHANGED <<Catalogs, ExplorerArgs, CLTArgs, env, constructed, drawn>>

\* the sample_means handed to calculate_normality_test: up to MaxNumSamples means
NormalityInputs ==
    UNION {[1..n -> {RInt(d) : d \in DrawVals}] : n \in 0..MaxNumSamples}

\* CLTSimulator.calculate_normality_test(sample_means)
CallCalculateNormalityTest ==
    /\ op = "none"
    /\ UNCHANGED UI
    /\ \E a \in NormalityInputs : \E lib \in [shapiro : TestOutcomes, ks : TestOutcomes] :
        /\ op' = "calculate_normality_test"
        /\ sample_means' = a
        /\ env' = lib
        /\ ret' = CalculateNormalityTest(a, lib)
    /\ UNCHANGED <<Catalogs, ExplorerArgs, dist_name, sample_size, num_samples, size,
                   constructed, drawn>>

\* CLTSimulator.get_available_distributions()
CallCLTGetAvailableDistributions ==
    /\ op = "none"
    /\ UNCHANGED UI
    /\ op' = "clt.get_available_distributions"
    /\ ret' = CLTGetAvailableDistributions(clt_distributions)
    /\ UNCHANGED <<Catalogs, dist_name, ExplorerArgs, CLTArgs, env, constructed, drawn>>

\* the call is over and its frame is dropped; the two engine objects, and so
\* their catalogs, stay for the next call
Finish ==
    /\ op # "none"
    /\ UNCHANGED UI
    /\ op' = "none"
    /\ dist_name' = ""
    /\ params' = EmptyDict
    /\ caller_params' = EmptyDict
    /\ x_range' = NoRange
    /\ sample_size' = 0
    /\ num_samples' = 0
    /\ size' = 0
    /\ sample_means' = <<>>
    /\ env' = NoEnv
    /\ ret' = NotCalled
    /\ constructed' = <<>>
    /\ drawn' = <<>>
    /\ UNCHANGED Catalogs

NextExplorer ==
    \/ CallValidateParams
    \/ CallExplorerGetDistributionInfo
    \/ CallCalculatePdfPmf
    \/ CallGetScenarioDescription
    \/ CallGetParamConfig
    \/ CallGetAvailableDistributions

NextCLT ==
    \/ CallCLTGetDistributionInfo
    \/ CallGeneratePopulationSample
    \/ CallSimulateSampling
    \/ CallGetDistributionDescription
    \/ CallCalculateNormalityTest
    \/ CallCLTGetAvailableDistributions

Next == NextExplorer \/ NextCLT

\* the engines keep nothing between calls, so a behaviour is one call
Spec == Init /\ [][Next]_vars
SpecExplorer == Init /\ [][NextExplorer]_vars
SpecCLT == Init /\ [][NextCLT]_vars

\* calls in succession on the same two engine objects
NextCalls == Next \/ Finish
SpecCalls == Init /\ [][NextCalls]_vars


-----------------------------------------------------------------------------
(* The presentation layer: main.py and components/clt_simulator_ui.py        *)
(* Every interaction with a widget makes Streamlit run the script main()     *)
(* once; st.session_state lasts from one run to the next.  The pages are     *)
(* "Home", "CLT" and "Explorer" for the three options of the navigation      *)
(* selectbox.                                                                *)

Pages == {"Home", "CLT", "Explorer"}

\* hasattr(st.session_state, key) and st.session_state.key = value
HasAttr(ss, key) == key \in DOMAIN ss
SetAttr(ss, key, value) ==
    [k \in DOMAIN ss \cup {key} |-> IF k = key THEN value ELSE ss[k]]

\* what a script run leaves: the session state, whether st.rerun() was
\* called, the simulate_sampling invocations made and how the attempt ended
Rendered(ss, rerun, calls, how) ==
    [session_state |-> ss, rerun |-> rerun, invoked |-> calls, attempt |-> how]

\* main.py lines 152-165: quick is the quick-start button pressed in this
\* run ("CLT", "Explorer"), "instructions" for the third button, "" for none
RenderHomePage(ss, quick) ==
    IF quick \in {"CLT", "Explorer"}
    THEN Rendered(SetAttr(ss, "page", quick), TRUE, <<>>, "none")
    ELSE Rendered(ss, FALSE, <<>>, "none")

\* one simulate_sampling invocation of the page and its outcome
Invocation(name, n, m, r) ==
    [dist_name |-> name, sample_size |-> n, num_samples |-> m, ret |-> r]

\* lines 107-111: the dictionary stored as last_results
Results(name, r) ==
    [sample_means |-> r.value.sample_means, statistics |-> r.value.statistics,
     dist_name |-> name]

\* mutant: the results are stored before the chart is built
AttemptStoreFirst(ss, name, n, m, r, outcome) ==
    Rendered(SetAttr(IF r.status = "return" THEN SetAttr(ss, "last_results", Results(name, r))
                     ELSE ss,
                     "run_simulation", FALSE),
             FALSE, <<Invocation(name, n, m, r)>>,
             IF r.status = "return" /\ outcome = "ok" THEN "ok" ELSE "failed")

\* mutant: the flag is reset at the end of the try block, not after it
AttemptResetInTry(ss, name, n, m, r, outcome) ==
    Rendered(IF r.status = "return" /\ outcome = "ok"
             THEN SetAttr(SetAttr(ss, "last_results", Results(name, r)),
                          "run_simulation", FALSE)
             ELSE ss,
             FALSE, <<Invocation(name, n, m, r)>>,
             IF r.status = "return" /\ outcome = "ok" THEN "ok" ELSE "failed")

\* lines 73-119, the branch that runs the simulation.  r is the outcome of
\* simulate_sampling; outcome is "chart_raises" when create_clt_visualization
\* or st.plotly_chart raises.  The results are stored at the end of the try
\* block, the flag is reset after the try statement.
Attempt(ss, name, n, m, r, outcome) ==
    Rendered(SetAttr(IF r.status = "return" /\ outcome = "ok"
                     THEN SetAttr(ss, "last_results", Results(name, r))
                     ELSE ss,
                     "run_simulation", FALSE),
             FALSE, <<Invocation(name, n, m, r)>>,
             IF r.status = "return" /\ outcome = "ok" THEN "ok" ELSE "failed")

\* lines 71-132: the simulation runs when the flag is there and set;
\* otherwise the page shows the stored results or a hint and stores nothing
RunOrShow(cat, ss, name, n, m, lib) ==
    IF HasAttr(ss, "run_simulation") /\ ss["run_simulation"]
    THEN Attempt(ss, name, n, m,
                 IF lib.outcome = "simulate_raises" THEN Raise("Exception")
                 ELSE SimulateSampling(cat, name, n, m, {}, lib.batches).ret,
                 lib.outcome)
    ELSE Rendered(ss, FALSE, <<>>, "none")

\* clt_simulator_ui.py lines 16-150.  start: the button of line 57 is pressed
\* in this run; name, n, m: the values of the three sidebar widgets; lib: what
\* the calls of the try block do (lib.outcome: "ok", "simulate_raises" when
\* simulate_sampling raises, "chart_raises") and the batches rvs yields
RenderCLTSimulator(cat, ss, start, name, n, m, lib) ==
    RunOrShow(cat, IF start THEN SetAttr(ss, "run_simulation", TRUE) ELSE ss,
              name, n, m, lib)

\* main.py lines 63-108: the page rendered is the selectbox's value pg
Main(cat, ss, pg, quick, start, name, n, m, lib) ==
    IF pg = "Home" THEN RenderHomePage(ss, quick)
    ELSE IF pg = "CLT" THEN RenderCLTSimulator(cat, ss, start, name, n, m, lib)
    ELSE Rendered(ss, FALSE, <<>>, "none")

\* the values of the sidebar widgets of the CLT page and the library's
\* answers in a script run, scaled down
UINames == {CLTNames[1], CLTNames[4]}
UISampleSizes == {2}
UINumSamples == {2}
UIOutcomes == {"ok", "simulate_raises", "chart_raises"}
UIInputs ==
    UNION {[name : UINames, n : {n}, m : {m}, outcome : UIOutcomes,
            batches : [1..m -> Samples(n)]] : n \in UISampleSizes, m \in UINumSamples}

\* the widgets of the CLT page exist in a run that renders that page only
InputsFor(pg) == IF pg = "CLT" THEN UIInputs ELSE {CHOOSE in \in UIInputs : TRUE}

\* one script run: what started it, the widget values it sees, its effect
ScriptRun(what, pg, quick, start, in) ==
    \E r \in {Main(clt_distributions, session_state, pg, quick, start,
                    in.name, in.n, in.m, in)} :
        /\ event' = what
        /\ page' = pg
        /\ shown' = pg
        /\ session_state' = r.session_state
        /\ rerun_pending' = r.rerun
        /\ invoked' = r.invoked
        /\ attempt' = r.attempt
        /\ UNCHANGED <<Catalogs, Call>>

\* the user picks another page in the navigation selectbox
SelectPage ==
    /\ ~rerun_pending
    /\ \E pg \in Pages \ {page} : \E in \in InputsFor(pg) :
        ScriptRun("select", pg, "", FALSE, in)

\* the user presses a quick-start button of the home page
PressQuickStart ==
    /\ ~rerun_pending /\ shown = "Home"
    /\ \E quick \in {"CLT", "Explorer"} : \E in \in InputsFor(page) :
        ScriptRun(quick, page, quick, FALSE, in)

\* the user presses the instructions button of the home page
PressInstructions ==
    /\ ~rerun_pending /\ shown = "Home"
    /\ \E in \in InputsFor(page) : ScriptRun("instructions", page, "instructions", FALSE, in)

\* the run st.rerun() asked for: same widget values, no button pressed
Rerun ==
    /\ rerun_pending
    /\ \E in \in InputsFor(page) : ScriptRun("rerun", page, "", FALSE, in)

\* the user presses the start button of the CLT page
PressStart ==
    /\ ~rerun_pending /\ shown = "CLT"
    /\ \E in \in UIInputs : ScriptRun("start", page, "", TRUE, in)

\* the user moves a slider or picks another distribution on the CLT page
ChangeCLTControl ==
    /\ ~rerun_pending /\ shown = "CLT"
    /\ \E in \in UIInputs : ScriptRun("change", page, "", FALSE, in)

\* the user changes a control of the Explorer page
ChangeExplorerControl ==
    /\ ~rerun_pending /\ shown = "Explorer"
    /\ \E in \in InputsFor(page) : ScriptRun("explore", page, "", FALSE, in)

NextUI ==
    \/ SelectPage
    \/ PressQuickStart
    \/ PressInstructions
    \/ Rerun
    \/ PressStart
    \/ ChangeCLTControl
    \/ ChangeExplorerControl

SpecUI == Init /\ [][NextUI]_vars

-----------------------------------------------------------------------------
(* Properties *)

KnownExplorerName == dist_name \in DOMAIN distributions
KnownCLTName == dist_name \in DOMAIN clt_distributions

\* the parameter spec of the distribution of the call
ParamSpecOfCall == distributions[dist_name].params

\* every value the caller supplies for a declared parameter is a number
\* (an int or a float, nan and the infinities included)
DeclaredValuesNumeric ==
    \A p \in DOMAIN params \cap DOMAIN ParamSpecOfCall : IsReal(params[p])

\* the value clamping starts from: the caller's if present, else the default
Supplied(p) == IF p \in DOMAIN params THEN params[p] ELSE ParamSpecOfCall[p].default

\* v saturated at the ends of [lo, hi], on integers
Saturate(lo, hi, v) == IF v < lo THEN lo ELSE IF v > hi THEN hi ELSE v

InRange(c, r) == r.k = "num" /\ c.min.v <= r.v /\ r.v <= c.max.v

\* C1: _validate_params on a known name and numeric values returns exactly
\* the declared parameter names, each value being the caller's value (or the
\* default when the name is absent) saturated at min and max: it lies in
\* [min, max] and an in-range value comes back unchanged.
C1_ClampContract ==
    (op = "_validate_params" /\ KnownExplorerName /\ DeclaredValuesNumeric) =>
        /\ Returned
        /\ DOMAIN ret.value = DOMAIN ParamSpecOfCall
        /\ \A p \in DOMAIN ParamSpecOfCall :
            LET c == ParamSpecOfCall[p]
                v == Supplied(p)
                r == ret.value[p]
            IN /\ InRange(c, r)
               /\ v.k = "num" => r.v = Saturate(c.min.v, c.max.v, v.v)
               /\ v.k = "inf" => r = c.max
               /\ v.k = "ninf" => r = c.min

C1_Witness ==
    /\ op = "_validate_params" /\ KnownExplorerName /\ DeclaredValuesNumeric /\ Returned
    /\ "extra" \in DOMAIN params
    /\ \E p \in DOMAIN ParamSpecOfCall : p \notin DOMAIN params
    /\ \E p \in DOMAIN ParamSpecOfCall \cap DOMAIN params :
        /\ params[p].k = "num"
        /\ params[p].v < ParamSpecOfCall[p].min.v
        /\ ret.value[p] = ParamSpecOfCall[p].min

\* C2: get_distribution_info and calculate_pdf_pmf on a known name build one
\* generator, and build it with exactly the clamped parameters: every keyword
\* argument lies in [min, max]; the 'params' field of the record returned by
\* get_distribution_info is that clamped mapping.  (When clamping itself
\* raises, no generator is built.)
C2_GeneratorGetsClampedParams ==
    (op \in {"explorer.get_distribution_info", "calculate_pdf_pmf"} /\ KnownExplorerName) =>
        LET clamped == ValidateParams(distributions, dist_name, params)
        IN IF clamped.status = "raise"
           THEN constructed = <<>> /\ ret = clamped
           ELSE /\ Len(constructed) = 1
                /\ constructed[1].func = distributions[dist_name].func
                /\ constructed[1].kwargs = clamped.value
                /\ DOMAIN constructed[1].kwargs = DOMAIN ParamSpecOfCall
                /\ \A p \in DOMAIN ParamSpecOfCall :
                    InRange(ParamSpecOfCall[p], constructed[1].kwargs[p])
                /\ op = "explorer.get_distribution_info" =>
                    /\ Returned
                    /\ ret.value.params = clamped.value
                    /\ ret.value.distribution = constructed[1]

C2_Witness ==
    /\ op = "calculate_pdf_pmf" /\ KnownExplorerName /\ Returned
    /\ Len(constructed) = 1
    /\ \E p \in DOMAIN ParamSpecOfCall \cap DOMAIN params :
        /\ params[p].k = "num"
        /\ params[p].v > ParamSpecOfCall[p].max.v
        /\ constructed[1].kwargs[p] = ParamSpecOfCall[p].max

\* C3: clamping is idempotent: clamping the mapping _validate_params returned
\* returns that same mapping.
C3_ClampIdempotent ==
    (op = "_validate_params" /\ Returned) =>
        ValidateParams(distributions, dist_name, ret.value) = ret

C3_Witness ==
    /\ op = "_validate_params" /\ Returned
    /\ \E p \in DOMAIN ret.value \cap DOMAIN params : ret.value[p] # params[p]
    /\ \E p \in DOMAIN ret.value \cap DOMAIN params :
        params[p].k = "num" /\ params[p].v # 0 /\ ret.value[p] = params[p]

\* C4: for each of the twelve catalog names _validate_params on the empty
\* mapping returns the declared default of every declared parameter; every
\* catalog entry has min <= default <= max.
C4_EmptyMappingGivesDefaults ==
    /\ Len(ExplorerNames) = 12
    /\ DOMAIN distributions = SeqRange(ExplorerNames)
    /\ \A d \in DOMAIN distributions : \A p \in DOMAIN distributions[d].params :
        InRange(distributions[d].params[p], distributions[d].params[p].default)
    /\ (op = "_validate_params" /\ KnownExplorerName /\ params = EmptyDict) =>
        /\ Returned
        /\ DOMAIN ret.value = DOMAIN ParamSpecOfCall
        /\ \A p \in DOMAIN ParamSpecOfCall : ret.value[p] = ParamSpecOfCall[p].default

C4_Witness ==
    /\ op = "_validate_params" /\ dist_name = "NegBinomial" /\ params = EmptyDict
    /\ Returned
    /\ ret.value["n"] = Num(500) /\ ret.value["p"] = Num(30)

\* C5 as stated: _validate_params on a known name returns for any raw mapping
\* whatsoever, whatever the supplied values are.
C5_TotalForAnyValue ==
    (op = "_validate_params" /\ KnownExplorerName) => Returned

\* C5 as amended: _validate_params on a known name returns, without raising,
\* for every raw mapping whose values for the declared parameters are numbers
\* (ints or floats, nan and the infinities included), whatever keys are
\* missing and whatever undeclared keys it holds; a value for a declared
\* parameter that cannot be ordered against a number raises TypeError.
C5_TotalForNumbers ==
    (op = "_validate_params" /\ KnownExplorerName) =>
        /\ DeclaredValuesNumeric => Returned
        /\ ~DeclaredValuesNumeric => Raised("TypeError")

C5_Witness ==
    /\ op = "_validate_params" /\ KnownExplorerName /\ Returned
    /\ "extra" \in DOMAIN params /\ params["extra"] = None
    /\ \E p \in DOMAIN ParamSpecOfCall : p \notin DOMAIN params
    /\ \E p \in DOMAIN ParamSpecOfCall \cap DOMAIN params : params[p] = NaN

RECURSIVE IntSum(_)
IntSum(s) == IF s = <<>> THEN 0 ELSE Head(s) + IntSum(Tail(s))

\* C6: simulate_sampling on a CLT catalog name with n >= 1 and m >= 1 returns
\* m sample means; exactly m batches of exactly n variates each are drawn and
\* the i-th mean is the sum of the i-th batch divided by n.
C6_SampleMeansShape ==
    (op = "simulate_sampling" /\ KnownCLTName /\ sample_size >= 1 /\ num_samples >= 1) =>
        /\ Returned
        /\ Len(ret.value.sample_means) = num_samples
        /\ Len(drawn) = num_samples
        /\ \A i \in 1..num_samples :
            /\ Len(drawn[i]) = sample_size
            /\ ret.value.sample_means[i].den > 0
            /\ ret.value.sample_means[i].num * sample_size
                   = IntSum(drawn[i]) * ret.value.sample_means[i].den

C6_Witness ==
    /\ op = "simulate_sampling" /\ Returned
    /\ sample_size >= 2 /\ num_samples >= 2
    /\ ret.value.sample_means[1] # ret.value.sample_means[2]
    /\ drawn[1][1] # drawn[1][2]

\* the sum of the squares of a sequence of fractions
RECURSIVE RSumSq(_)
RSumSq(s) == IF s = <<>> THEN RInt(0) ELSE RAdd(RMul(Head(s), Head(s)), RSumSq(Tail(s)))

\* C7: the statistics of simulate_sampling: sample_size = n, num_samples = m,
\* theoretical_mean is the mean get_distribution_info reports,
\* theoretical_std_of_means squared times n is the variance it reports (the
\* std over sqrt(n)), sample_mean_mean times m is the sum of the returned
\* means, sample_mean_std is the root of sample_mean_var, and
\* (m - 1) * sample_mean_var = sum of squares - m * mean^2 (divisor m - 1);
\* with m = 1 the divisor is 0 and both are nan.
C7_StatisticsDerived ==
    (op = "simulate_sampling" /\ Returned) =>
        LET st == ret.value.statistics
            sm == ret.value.sample_means
            info == CLTGetDistributionInfo(clt_distributions, dist_name, env.raises).ret.value
            m == num_samples
        IN /\ st.sample_size = sample_size
           /\ st.num_samples = m
           /\ st.theoretical_mean = info.theoretical_mean
           /\ RMul(st.theoretical_std_of_means.sq, RInt(sample_size)) = info.theoretical_var
           /\ info.theoretical_std.sq = info.theoretical_var
           /\ RMul(st.sample_mean_mean, RInt(m)) = RSum(sm)
           /\ st.sample_mean_std = Sqrt(st.sample_mean_var)
           /\ IF m = 1 THEN RIsNaN(st.sample_mean_var)
              ELSE /\ ~RIsNaN(st.sample_mean_var)
                   /\ RMul(RInt(m - 1), st.sample_mean_var)
                        = RSub(RSumSq(sm),
                               RMul(RInt(m), RMul(st.sample_mean_mean, st.sample_mean_mean)))

C7_Witness ==
    /\ op = "simulate_sampling" /\ Returned
    /\ sample_size >= 2 /\ num_samples >= 3
    /\ ~RIsNaN(ret.value.statistics.theoretical_mean)
    /\ ret.value.statistics.sample_mean_var.num > 0
    /\ ret.value.statistics.theoretical_std_of_means.sq.num > 0

ExplorerOps ==
    {"_validate_params", "explorer.get_distribution_info", "calculate_pdf_pmf",
     "get_scenario_description", "get_param_config"}

CLTOps ==
    {"clt.get_distribution_info", "generate_population_sample", "simulate_sampling",
     "get_distribution_description"}

\* the call names a distribution its engine's catalog does not register
UnknownNameCall ==
    \/ op \in ExplorerOps /\ ~KnownExplorerName
    \/ op \in CLTOps /\ ~KnownCLTName

\* C8: every catalog operation of either engine raises ValueError
\* (UnknownDistribution) for a name its catalog does not register.
C8_UnknownNameAlwaysRaises ==
    UnknownNameCall => Raised("ValueError")

\* C9: get_distribution_description raises ValueError (UnknownDistribution)
\* for a name outside the CLT catalog and returns the description text only
\* for catalog names.
C9_DescribeRaisesOnUnknown ==
    op = "get_distribution_description" =>
        IF KnownCLTName
        THEN Returned /\ ret.value.text = "description" /\ ret.value.of = dist_name
        ELSE Raised("ValueError")

\* C10: simulate_sampling, generate_population_sample and calculate_pdf_pmf
\* called with a name their catalog does not register raise the ValueError of
\* the lookup, before any generator is built or any variate is drawn, and
\* return nothing.
C10_UnknownNamePropagates ==
    (op \in {"simulate_sampling", "generate_population_sample", "calculate_pdf_pmf"}
        /\ UnknownNameCall) =>
        /\ Raised("ValueError")
        /\ constructed = <<>>
        /\ drawn = <<>>

C10_Witness ==
    /\ op = "simulate_sampling" /\ dist_name = "StudentT"
    /\ sample_size >= 1 /\ num_samples >= 1
    /\ Raised("ValueError") /\ drawn = <<>>

-----------------------------------------------------------------------------
(* Properties of the statistics *)

\* the method call that computes each statistic field of get_distribution_info
FieldCall ==
    [mean |-> "mean", variance |-> "var", std |-> "std", q25 |-> "ppf25",
     median |-> "ppf50", q75 |-> "ppf75", skewness |-> "skew", kurtosis |-> "kurt"]

\* the calls get_distribution_info makes for the kind of the distribution
CallsOfKind(type) ==
    IF type = "continuous" THEN SeqRange(ContinuousCalls) ELSE SeqRange(DiscreteCalls)

\* C11: get_distribution_info is failure tolerant per field: a statistic
\* whose computation raises is reported as nan, and every statistic whose
\* computation does not raise keeps its computed value.
C11_PerFieldTolerance ==
    (op = "explorer.get_distribution_info" /\ Returned) =>
        \A f \in DOMAIN FieldCall :
            FieldCall[f] \in CallsOfKind(ret.value.type) =>
                ret.value[f] = IF FieldCall[f] \in env.raises THEN NaN
                               ELSE Computed(FieldCall[f])

\* C12: CLTSimulator.get_distribution_info on a known name returns even when
\* a moment raises; then theoretical_mean, theoretical_var and
\* theoretical_std are all nan, never a mix; when none raises all three are
\* the computed moments.
C12_MomentsAllOrNothing ==
    (op = "clt.get_distribution_info" /\ KnownCLTName) =>
        /\ Returned
        /\ LET v == ret.value
           IN IF env.raises \cap SeqRange(CLTCalls) # {}
              THEN /\ RIsNaN(v.theoretical_mean)
                   /\ RIsNaN(v.theoretical_var)
                   /\ RIsNaN(v.theoretical_std.sq)
              ELSE /\ v.theoretical_mean = DistMean(v.distribution)
                   /\ v.theoretical_var = DistVar(v.distribution)
                   /\ v.theoretical_std.sq = v.theoretical_var
                   /\ ~RIsNaN(v.theoretical_mean)
                   /\ ~RIsNaN(v.theoretical_var)

C12_Witness ==
    /\ op = "clt.get_distribution_info" /\ KnownCLTName /\ Returned
    /\ env.raises = {"std"}
    /\ RIsNaN(ret.value.theoretical_mean)
    /\ RIsNaN(ret.value.theoretical_var)

StatisticKeys == {"shapiro_statistic", "shapiro_p_value", "ks_statistic", "ks_p_value"}

\* C13: calculate_normality_test never raises and is all-or-nothing: when
\* neither test raises the record holds the four numbers the tests returned
\* and no error field; when a test raises it holds an error field and the
\* four statistics are all nan.
C13_NormalityAllOrNothing ==
    op = "calculate_normality_test" =>
        /\ Returned
        /\ LET v == ret.value
           IN IF env.shapiro # "raise" /\ env.ks # "raise"
              THEN /\ "error" \notin DOMAIN v
                   /\ StatisticKeys \subseteq DOMAIN v
                   /\ v.shapiro_statistic.test = "shapiro" /\ v.shapiro_p_value.test = "shapiro"
                   /\ v.ks_statistic.test = "kstest" /\ v.ks_p_value.test = "kstest"
                   /\ v.shapiro_statistic.nan = (env.shapiro = "nan")
                   /\ v.ks_statistic.nan = (env.ks = "nan")
              ELSE /\ DOMAIN v = StatisticKeys \cup {"error"}
                   /\ \A key \in StatisticKeys : v[key] = TestUndefined

C13_Witness ==
    /\ op = "calculate_normality_test" /\ Returned
    /\ env.shapiro = "value" /\ env.ks = "raise"
    /\ Len(sample_means) >= 3
    /\ "error" \in DOMAIN ret.value
    /\ ret.value.shapiro_statistic = TestUndefined

DiscreteCall == KnownExplorerName /\ distributions[dist_name].type = "discrete"
ContinuousCall == KnownExplorerName /\ distributions[dist_name].type = "continuous"

\* C14: for a discrete distribution and no supplied range, the domain
\* calculate_pdf_pmf returns has at most 100 integer points and does not
\* start below 0.
C14_DiscreteAutoAtMost100 ==
    (op = "calculate_pdf_pmf" /\ DiscreteCall /\ ~x_range.given /\ Returned) =>
        /\ ret.value.x.len <= 100
        /\ ~PyLt(ret.value.x.start, Num(0))


\* floor and ceiling of a finite number, in hundredths
Floor(a) == Num((a.v \div 100) * 100)
Ceil(a) == Num(0 - (((0 - a.v) \div 100) * 100))

\* C15: for a discrete distribution and a supplied range lo <= hi of finite
\* numbers, x is the consecutive integers from floor(lo) to ceil(hi).
C15_GivenRangeEnclosingIntegers ==
    (op = "calculate_pdf_pmf" /\ DiscreteCall /\ x_range.given
       /\ x_range.lo.k = "num" /\ x_range.hi.k = "num" /\ x_range.lo.v <= x_range.hi.v) =>
        /\ Returned
        /\ ret.value.x.kind = "arange"
        /\ ret.value.x.start = Floor(x_range.lo)
        /\ ret.value.x.stop = Ceil(x_range.hi)
        /\ ret.value.x.len = (Ceil(x_range.hi).v - Floor(x_range.lo).v) \div 100 + 1


\* the automatic quantile lookup of the call raises: a call of the try block
\* of its kind does, or int() of a quantile that is nan or infinite
QuantileLookupRaises ==
    \/ env.ppf_lo = RaiseMark
    \/ env.ppf_hi = RaiseMark
    \/ /\ ContinuousCall
       /\ IsInf(env.ppf_lo) \/ IsInf(env.ppf_hi)
       /\ env.mean = RaiseMark \/ env.std = RaiseMark
    \/ /\ DiscreteCall
       /\ PyInt(env.ppf_lo) = RaiseMark \/ PyInt(env.ppf_hi) = RaiseMark

\* C16: calculate_pdf_pmf returns for every catalog name, whatever the raw
\* parameters and the range; when the automatic quantile lookup raises, the
\* domain returned runs from -5 to 5.
C16_NeverFailsFallbackMinus5To5 ==
    (op = "calculate_pdf_pmf" /\ KnownExplorerName) =>
        /\ Returned
        /\ (~x_range.given /\ QuantileLookupRaises) =>
               /\ ret.value.x.start = Num(-500)
               /\ ret.value.x.stop = Num(500)


\* both bounds of a linspace are finite numbers
FiniteDomain(x) == x.start.k = "num" /\ x.stop.k = "num"

\* C17: for a continuous distribution, no supplied range and a quantile
\* lookup that does not raise, the bounds are ppf(0.001) and ppf(0.999), an
\* infinite one replaced by mean - 4 std, respectively mean + 4 std, the
\* other one kept; x has 1000 points, the first and the last being the bounds.
C17_ContinuousAutoBounds ==
    (op = "calculate_pdf_pmf" /\ ContinuousCall /\ DeclaredValuesNumeric
       /\ ~x_range.given /\ ~QuantileLookupRaises) =>
        /\ Returned
        /\ LET x == ret.value.x
           IN /\ x.kind = "linspace"
              /\ x.len = 1000
              /\ x.start = IF IsInf(env.ppf_lo)
                           THEN FAdd(env.mean, FNeg(FScale(4, env.std)))
                           ELSE env.ppf_lo
              /\ x.stop = IF IsInf(env.ppf_hi)
                          THEN FAdd(env.mean, FScale(4, env.std))
                          ELSE env.ppf_hi
              /\ FiniteDomain(x) =>
                    /\ PointTimesDiv(x, 0) = x.start.v * x.div
                    /\ PointTimesDiv(x, x.len - 1) = x.stop.v * x.div
              /\ ret.value.y = [kind |-> "pdf", len |-> 1000]

C17_Witness ==
    /\ op = "calculate_pdf_pmf" /\ ContinuousCall /\ ~x_range.given /\ Returned
    /\ env.ppf_lo = NegInf /\ env.ppf_hi = Num(350)
    /\ env.mean = Num(50) /\ env.std = Num(100)
    /\ ret.value.x.start = Num(-350) /\ ret.value.x.stop = Num(350)

\* C18: for a continuous distribution and a supplied range lo <= hi, whatever
\* the parameters and the library's answers, x has 1000 points, starts at
\* lo, ends at hi and stays within [lo, hi].
C18_GivenRangeUsedDirectly ==
    (op = "calculate_pdf_pmf" /\ ContinuousCall /\ DeclaredValuesNumeric /\ x_range.given
       /\ x_range.lo.k = "num" /\ x_range.hi.k = "num" /\ x_range.lo.v <= x_range.hi.v) =>
        /\ Returned
        /\ LET x == ret.value.x
           IN /\ x.kind = "linspace"
              /\ x.len = 1000
              /\ x.start = x_range.lo
              /\ x.stop = x_range.hi
              /\ PointTimesDiv(x, 0) = x_range.lo.v * x.div
              /\ PointTimesDiv(x, x.len - 1) = x_range.hi.v * x.div
              /\ \A i \in 0..(x.len - 1) :
                    /\ x_range.lo.v * x.div <= PointTimesDiv(x, i)
                    /\ PointTimesDiv(x, i) <= x_range.hi.v * x.div

C18_Witness ==
    /\ op = "calculate_pdf_pmf" /\ dist_name = "Normal" /\ Returned
    /\ x_range = Range(Num(-200), Num(200))
    /\ "scale" \in DOMAIN params /\ params["scale"] # Num(100)
    /\ ret.value.x.start = Num(-200) /\ ret.value.x.stop = Num(200)
    /\ ret.value.x.len = 1000


\* every value the caller supplies under a key some template formats is a number
ScenarioValuesNumeric == \A key \in DOMAIN params \cap ScenarioKeys : IsReal(params[key])

\* the value a parameter of the call has as the caller gave it
RawOrDefault(key, default) == IF key \in DOMAIN params THEN params[key] ELSE default

\* C19: get_scenario_description returns the template of the name for each of
\* the twelve catalog names, filled with the parameters as the caller gave
\* them (unclamped), and the placeholder text for any other name; it builds
\* no generator.
C19_ScenarioTemplateOrPlaceholder ==
    (op = "get_scenario_description" /\ ScenarioValuesNumeric) =>
        /\ Returned
        /\ constructed = <<>>
        /\ IF dist_name \in SeqRange(ExplorerNames)
           THEN /\ ret.value.template = dist_name
                /\ Len(ret.value.fields) = Len(ScenarioFields(dist_name))
                /\ \A i \in 1..Len(ret.value.fields) :
                      LET f == ScenarioFields(dist_name)[i]
                      IN ret.value.fields[i].of =
                            IF dist_name = "Uniform" /\ i = 2
                            THEN FAdd(RawOrDefault("loc", Num(0)), RawOrDefault("scale", Num(100)))
                            ELSE RawOrDefault(f.key, f.default)
           ELSE ret.value = [template |-> "placeholder", fields |-> <<>>]

C19_Witness ==
    /\ op = "get_scenario_description" /\ dist_name = "Normal" /\ Returned
    /\ "loc" \in DOMAIN params /\ params["loc"] = Num(1001)
    /\ ret.value.template = "Normal"
    /\ ret.value.fields[1].of = Num(1001)
    /\ constructed = <<>>


\* the place of a name in the catalog
CatalogIndex(n) == CHOOSE i \in 1..Len(ExplorerNames) : ExplorerNames[i] = n

\* a list of catalog names without repetition, in catalog order
InCatalogOrder(list) ==
    /\ \A i \in 1..Len(list) : list[i] \in SeqRange(ExplorerNames)
    /\ \A i, j \in 1..Len(list) : i < j => CatalogIndex(list[i]) < CatalogIndex(list[j])

\* C20: get_available_distributions partitions the catalog by kind: a name is
\* in the continuous list iff its type is continuous and in the discrete
\* list otherwise, both lists keep catalog order, and they hold 8 and 4 names.
C20_ListByKindPartitions ==
    op = "get_available_distributions" =>
        /\ Returned
        /\ LET c == ret.value.continuous
               d == ret.value.discrete
           IN /\ InCatalogOrder(c) /\ InCatalogOrder(d)
              /\ \A n \in DOMAIN distributions :
                    /\ n \in SeqRange(c) <=> distributions[n].type = "continuous"
                    /\ n \in SeqRange(d) <=> distributions[n].type # "continuous"
              /\ SeqRange(c) \cap SeqRange(d) = {}
              /\ SeqRange(c) \cup SeqRange(d) = DOMAIN distributions
              /\ Len(c) = 8 /\ Len(d) = 4

C20_Witness ==
    /\ op = "get_available_distributions" /\ Returned
    /\ ret.value.continuous[1] = "Normal" /\ ret.value.continuous[8] = "F"
    /\ ret.value.discrete = <<"Binomial", "Poisson", "Geometric", "NegBinomial">>


ContinuousOnlyFields == {"q25", "median", "q75", "skewness", "kurtosis"}

\* C21: in the record get_distribution_info returns, the quartiles, skewness
\* and kurtosis are None for a discrete distribution in every outcome and
\* never None for a continuous one; mean, variance and std are never None.
C21_KindConsistentFields ==
    (op = "explorer.get_distribution_info" /\ Returned) =>
        LET v == ret.value
        IN /\ v.type = "discrete" => \A f \in ContinuousOnlyFields : v[f] = None
           /\ v.type = "continuous" => \A f \in ContinuousOnlyFields : v[f] # None
           /\ v.mean # None /\ v.variance # None /\ v.std # None


\* C22: for a catalog name, the pair calculate_pdf_pmf returns has as many y
\* as x values and is not empty; for a discrete distribution x is the run of
\* consecutive integers from its lower to its upper bound.
C22_CurveSameLengthNonEmpty ==
    (op = "calculate_pdf_pmf" /\ KnownExplorerName /\ Returned) =>
        LET x == ret.value.x
            y == ret.value.y
        IN /\ y.len = x.len
           /\ x.len > 0
           /\ DiscreteCall =>
                 /\ x.kind = "arange"
                 /\ Whole(x.start) /\ Whole(x.stop)
                 /\ x.len = (x.stop.v - x.start.v) \div 100 + 1


\* the operations that are handed a parameter mapping
OpsWithParams ==
    {"_validate_params", "explorer.get_distribution_info", "calculate_pdf_pmf",
     "get_scenario_description"}

\* C23: after any succession of calls of either engine, returned or raised,
\* both catalogs are as constructed (12 and 8 entries), the mapping the
\* caller passed is as it was passed, and get_available_distributions of the
\* CLT engine returns the same eight names in catalog order.
C23_CatalogsImmutable ==
    /\ distributions = ExplorerCatalog
    /\ clt_distributions = CLTCatalog
    /\ Cardinality(DOMAIN distributions) = 12
    /\ Cardinality(DOMAIN clt_distributions) = 8
    /\ op \in OpsWithParams => caller_params = params
    /\ op = "clt.get_available_distributions" => ret = Return(CLTNames)

C23_Witness ==
    /\ op = "_validate_params" /\ dist_name = "Normal" /\ Returned
    /\ "loc" \in DOMAIN params /\ params["loc"] = Num(1001)
    /\ ret.value["loc"] = Num(1000)
    /\ caller_params["loc"] = Num(1001)
    /\ distributions["Normal"].params["loc"].max = Num(1000)


\* the stored results of a session state: <<>> when there are none
LastResults(ss) == IF HasAttr(ss, "last_results") THEN <<ss["last_results"]>> ELSE <<>>

\* the three fields of stored results belong together: the statistics are
\* those of the sample means, for the distribution named
SameInvocation(lr) ==
    /\ lr.statistics.num_samples = Len(lr.sample_means)
    /\ lr.statistics.sample_mean_mean = NpMean(lr.sample_means)
    /\ lr.statistics.sample_mean_var = NpVar(lr.sample_means, 1)
    /\ lr.dist_name \in DOMAIN clt_distributions
    /\ lr.statistics.theoretical_mean
          = CLTGetDistributionInfo(clt_distributions, lr.dist_name, {}).ret.value.theoretical_mean

C26_QuickStartShowsModule ==
    (event = "rerun" /\ HasAttr(session_state, "page")) => shown = session_state["page"]

=============================================================================
